---- MODULE Spec2Model ----
(***************************************************************************)
(* A model of library.py: the column operators (transformers), the         *)
(* pipelines built from them, dataset_setup and find_random_state.         *)
(*                                                                         *)
(* Numbers are exact rationals (floating-point rounding is abstracted);    *)
(* the one irrational operation, the standard deviation's square root, is  *)
(* taken to a fixed precision (SqrtScale).  pandas, numpy and scikit-learn *)
(* are modelled by their documented behaviour on the calls the library     *)
(* makes.                                                                  *)
(***************************************************************************)
EXTENDS Integers, Sequences, FiniteSets, TLC

(***************************************************************************)
(* Bounds of the model.                                                    *)
(***************************************************************************)
MaxRows == 2
SqrtScale == 100

(***************************************************************************)
(* Cell values.  Every cell, fitted parameter and label is one record      *)
(* shape: a string, a number n/d in lowest terms, NaN (pandas' missing     *)
(* value) or None (Python's None, the unfitted marker).                    *)
(***************************************************************************)
None == [k |-> "none", s |-> "", n |-> 0, d |-> 1]
NaN == [k |-> "nan", s |-> "", n |-> 0, d |-> 1]
Str(x) == [k |-> "str", s |-> x, n |-> 0, d |-> 1]

Abs(i) == IF i < 0 THEN -i ELSE i

RECURSIVE Gcd(_, _)
Gcd(a, b) == IF b = 0 THEN a ELSE Gcd(b, a % b)

Num(n, d) ==
    LET g == Gcd(Abs(n), Abs(d))
        sg == IF d < 0 THEN -1 ELSE 1
    IN [k |-> "num", s |-> "", n |-> sg * (n \div g), d |-> sg * (d \div g)]

Whole(i) == Num(i, 1)

IsNum(v) == v.k = "num"
IsNaN(v) == v.k = "nan"
IsNone(v) == v.k = "none"
IsStr(v) == v.k = "str"

\* float arithmetic: NaN is absorbing
\* the arithmetic keeps the intermediate products small: sums over the least
\* common denominator, products after cross-cancelling
Lcm(a, b) == (a \div Gcd(a, b)) * b

RAdd(a, b) ==
    IF IsNum(a) /\ IsNum(b)
    THEN LET d == Lcm(a.d, b.d) IN Num(a.n * (d \div a.d) + b.n * (d \div b.d), d)
    ELSE NaN

RNeg(a) == IF IsNum(a) THEN [a EXCEPT !.n = -@] ELSE NaN

RSub(a, b) == RAdd(a, RNeg(b))

RMul(a, b) ==
    IF IsNum(a) /\ IsNum(b)
    THEN LET g == Gcd(Abs(a.n), b.d)
             h == Gcd(Abs(b.n), a.d)
         IN Num((a.n \div g) * (b.n \div h), (a.d \div h) * (b.d \div g))
    ELSE NaN

\* numpy float division: x/0 is inf or nan, never an exception; the model
\* has no infinity and gives NaN
RDiv(a, b) ==
    IF IsNum(a) /\ IsNum(b) /\ b.n # 0
    THEN RMul(a, Num(b.d, b.n))
    ELSE NaN

RLess(a, b) ==
    IsNum(a) /\ IsNum(b) /\ LET d == Lcm(a.d, b.d) IN a.n * (d \div a.d) < b.n * (d \div b.d)

RLeq(a, b) ==
    IsNum(a) /\ IsNum(b) /\ LET d == Lcm(a.d, b.d) IN a.n * (d \div a.d) <= b.n * (d \div b.d)

\* floor(sqrt(i)) of a natural number
Isqrt(i) == CHOOSE r \in 0..i : r * r <= i /\ i < (r + 1) * (r + 1)

\* the square root of a non-negative rational, to 1/SqrtScale
RSqrt(a) ==
    IF ~IsNum(a) \/ a.n < 0 THEN NaN
    ELSE Num(Isqrt((a.n * SqrtScale * SqrtScale) \div a.d), SqrtScale)

(***************************************************************************)
(* Sequence helpers.                                                       *)
(***************************************************************************)
Range(s) == {s[i] : i \in 1..Len(s)}

RECURSIVE SumSeq(_)
SumSeq(s) == IF s = <<>> THEN Whole(0) ELSE RAdd(Head(s), SumSeq(Tail(s)))

IndexOf(s, x) == CHOOSE i \in 1..Len(s) : s[i] = x

NoDup(s) == \A i, j \in 1..Len(s) : s[i] = s[j] => i = j

(***************************************************************************)
(* Tables (pandas DataFrames).  df is FALSE for a value that is not a      *)
(* DataFrame.  cols is the column order, nrows the row count, cell[c] the  *)
(* column's values by row position and dtype[c] "num" for a numeric        *)
(* column, "obj" for an object (string) column.                            *)
(***************************************************************************)
NotATable == [df |-> FALSE, cols |-> <<>>, nrows |-> 0, cell |-> <<>>, dtype |-> <<>>]

HasCol(X, c) == c \in Range(X.cols)

\* X_[c] = values, the column appended when it is new
SetCol(X, c, values, dt) ==
    [X EXCEPT !.cols = IF HasCol(X, c) THEN @ ELSE Append(@, c),
              !.cell = [x \in DOMAIN @ \cup {c} |-> IF x = c THEN values ELSE @[x]],
              !.dtype = [x \in DOMAIN @ \cup {c} |-> IF x = c THEN dt ELSE @[x]]]

\* X[columns], X.drop(columns=...): the listed columns in the given order
SelectCols(X, columns) ==
    [X EXCEPT !.cols = columns,
              !.cell = [x \in Range(columns) |-> @[x]],
              !.dtype = [x \in Range(columns) |-> @[x]]]

\* the dtype pandas infers for a column of values (object as soon as one
\* value is a string); an empty column keeps the dtype it had
InferDtype(values, old) ==
    IF values = <<>> THEN old
    ELSE IF \E i \in 1..Len(values) : IsStr(values[i]) THEN "obj" ELSE "num"

\* pd.api.types.is_numeric_dtype(X[c])
IsNumericDtype(X, c) == X.dtype[c] = "num"

\* the present (non-NaN) values of a column: pandas' skipna
Present(values) == SelectSeq(values, IsNum)

\* Series.mean(): NaN on an empty column
Mean(values) ==
    LET p == Present(values)
    IN IF p = <<>> THEN NaN ELSE RDiv(SumSeq(p), Whole(Len(p)))

\* Series.std(): the sample standard deviation (ddof = 1), NaN below 2 values
Std(values) ==
    LET p == Present(values)
        m == Mean(values)
        sq == [i \in 1..Len(p) |-> RMul(RSub(p[i], m), RSub(p[i], m))]
    IN IF Len(p) < 2 THEN NaN ELSE RSqrt(RDiv(SumSeq(sq), Whole(Len(p) - 1)))

\* Series.quantile(q), q = qn/qd: linear interpolation between the two
\* nearest order statistics, NaN on an empty column
Quantile(values, qn, qd) ==
    LET p == SortSeq(Present(values), RLess)
        pos == qn * (Len(p) - 1)
        lo == pos \div qd
        rem == pos % qd
    IN IF p = <<>> THEN NaN
       ELSE IF rem = 0 THEN p[lo + 1]
       ELSE RAdd(p[lo + 1], RMul(Num(rem, qd), RSub(p[lo + 2], p[lo + 1])))

\* Series.median()
Median(values) == Quantile(values, 1, 2)

\* a clip that forgets the upper threshold
ClipValueLowerOnly(v, lower, upper) ==
    IF IsNum(v) /\ IsNum(lower) /\ RLess(v, lower) THEN lower ELSE v

\* Series.clip(lower, upper) on one value: a NaN value stays NaN and a NaN
\* threshold does not clip
ClipValue(v, lower, upper) ==
    IF ~IsNum(v) THEN v
    ELSE IF IsNum(lower) /\ RLess(v, lower) THEN lower
    ELSE IF IsNum(upper) /\ RLess(upper, v) THEN upper
    ELSE v

Clip(values, lower, upper) ==
    [i \in 1..Len(values) |-> ClipValue(values[i], lower, upper)]

(***************************************************************************)
(* What a call returns: the operator after the call (self), the caller's   *)
(* table after the call (X), and either the returned table (ok) or the     *)
(* exception (err).                                                        *)
(***************************************************************************)
Returns(self, X, out) == [self |-> self, X |-> X, ok |-> TRUE, err |-> "", out |-> out]
Raises(self, X, err) == [self |-> self, X |-> X, ok |-> FALSE, err |-> err, out |-> NotATable]

(***************************************************************************)
(* CustomMappingTransformer                                                *)
(***************************************************************************)
CustomMappingTransformer(mapping_column, mapping_dict) ==
    [kind |-> "Mapping", mapping_column |-> mapping_column, mapping_dict |-> mapping_dict]

\* Series.replace(dict): every value that is a key is replaced by its image,
\* all keys matched against the original values (pandas computes the masks
\* of all keys before it replaces any)
ReplaceChained(values, mapping_dict) ==
    LET once == [i \in 1..Len(values) |->
                    IF values[i] \in DOMAIN mapping_dict
                    THEN mapping_dict[values[i]] ELSE values[i]]
    IN [i \in 1..Len(values) |->
           IF once[i] \in DOMAIN mapping_dict THEN mapping_dict[once[i]] ELSE once[i]]

Replace(values, mapping_dict) ==
    [i \in 1..Len(values) |->
        IF values[i] \in DOMAIN mapping_dict THEN mapping_dict[values[i]] ELSE values[i]]

CustomMappingTransformer_fit(self, X, y) == Returns(self, X, NotATable)

\* the transform with the two data-quality warnings turned into failures
CustomMappingTransformer_transform_strict(self, X) ==
    LET c == self.mapping_column
        column_set == Range(X.cell[c])
    IN IF ~X.df \/ ~HasCol(X, c) THEN Raises(self, X, "AssertionError")
       ELSE IF DOMAIN self.mapping_dict # column_set THEN Raises(self, X, "AssertionError")
       ELSE Returns(self, X,
                    SetCol(X, c, Replace(X.cell[c], self.mapping_dict),
                           InferDtype(Replace(X.cell[c], self.mapping_dict), X.dtype[c])))

\* the transform writing into the caller's table instead of a copy
CustomMappingTransformer_transform_inplace(self, X) ==
    LET c == self.mapping_column
        values == Replace(X.cell[c], self.mapping_dict)
        X_ == SetCol(X, c, values, InferDtype(values, X.dtype[c]))
    IN IF ~X.df THEN Raises(self, X, "AssertionError")
       ELSE IF ~HasCol(X, c) THEN Raises(self, X, "AssertionError")
       ELSE Returns(self, X_, X_)

CustomMappingTransformer_transform(self, X) ==
    LET c == self.mapping_column
        \* the two warnings: keys that are no value, values that are no key
        column_set == Range(X.cell[c])
        keys_not_found == DOMAIN self.mapping_dict \ column_set
        keys_absent == column_set \ DOMAIN self.mapping_dict
        X_ == X
        values == Replace(X_.cell[c], self.mapping_dict)
    IN IF ~X.df THEN Raises(self, X, "AssertionError")
       ELSE IF ~HasCol(X, c) THEN Raises(self, X, "AssertionError")
       ELSE Returns(self, X, SetCol(X_, c, values, InferDtype(values, X_.dtype[c])))

CustomMappingTransformer_fit_transform(self, X, y) ==
    CustomMappingTransformer_transform(self, X)

(***************************************************************************)
(* CustomOHETransformer                                                    *)
(***************************************************************************)
CustomOHETransformer(target_column) == [kind |-> "OHE", target_column |-> target_column]

\* the order pandas sorts the category strings in
CatOrder == <<"a", "b", "c">>

\* pd.get_dummies(column, prefix).astype(int): one 0/1 column per distinct
\* string value, in sorted order, named prefix_value
DummyValues(values) ==
    SelectSeq(CatOrder, LAMBDA x : \E i \in 1..Len(values) : values[i] = Str(x))

DummyName(prefix, x) == prefix \o "_" \o x

DummyColumn(values, x) ==
    [i \in 1..Len(values) |-> IF values[i] = Str(x) THEN Whole(1) ELSE Whole(0)]

RECURSIVE AddDummies(_, _, _, _)
AddDummies(X, prefix, values, cats) ==
    IF cats = <<>> THEN X
    ELSE AddDummies(SetCol(X, DummyName(prefix, Head(cats)), DummyColumn(values, Head(cats)), "num"),
                    prefix, values, Tail(cats))

CustomOHETransformer_fit(self, X, y) == Returns(self, X, NotATable)

\* the transform without the drop of the target column
CustomOHETransformer_transform_keeping_target(self, X) ==
    LET c == self.target_column
    IN IF ~X.df THEN Raises(self, X, "AttributeError")
       ELSE IF ~HasCol(X, c) THEN Raises(self, X, "AssertionError")
       ELSE Returns(self, X, AddDummies(X, c, X.cell[c], DummyValues(X.cell[c])))

CustomOHETransformer_transform(self, X) ==
    LET c == self.target_column
        X_transformed == SelectCols(X, SelectSeq(X.cols, LAMBDA x : x # c))
    IN IF ~X.df THEN Raises(self, X, "AttributeError")
       ELSE IF ~HasCol(X, c) THEN Raises(self, X, "AssertionError")
       ELSE Returns(self, X, AddDummies(X_transformed, c, X.cell[c], DummyValues(X.cell[c])))

CustomOHETransformer_fit_transform(self, X, y) == CustomOHETransformer_transform(self, X)

(***************************************************************************)
(* CustomDropColumnsTransformer                                            *)
(***************************************************************************)
CustomDropColumnsTransformer(column_list, action) ==
    [kind |-> "DropColumns", column_list |-> column_list, action |-> action]

CustomDropColumnsTransformer_fit(self, X, y) == Returns(self, X, NotATable)

\* the transform keeping the listed columns in the table's order
CustomDropColumnsTransformer_transform_table_order(self, X) ==
    LET listed == Range(self.column_list)
    IN IF ~X.df THEN Raises(self, X, "AssertionError")
       ELSE IF self.action = "keep" /\ listed \ Range(X.cols) # {}
            THEN Raises(self, X, "AssertionError")
       ELSE Returns(self, X,
                    SelectCols(X, SelectSeq(X.cols,
                                            LAMBDA x : (x \in listed) = (self.action = "keep"))))

\* the transform keeping the listed columns that are present
CustomDropColumnsTransformer_transform_lenient(self, X) ==
    LET listed == Range(self.column_list)
    IN IF ~X.df THEN Raises(self, X, "AssertionError")
       ELSE IF self.action = "keep"
            THEN Returns(self, X,
                         SelectCols(X, SelectSeq(self.column_list, LAMBDA x : HasCol(X, x))))
       ELSE Returns(self, X, SelectCols(X, SelectSeq(X.cols, LAMBDA x : x \notin listed)))

CustomDropColumnsTransformer_transform(self, X) ==
    LET df_columns == Range(X.cols)
        specified_columns == Range(self.column_list)
        missing_columns == specified_columns \ df_columns
        columns_to_keep == SelectSeq(self.column_list, LAMBDA col : col \in df_columns)
        columns_to_drop == SelectSeq(self.column_list, LAMBDA col : col \in df_columns)
    IN IF ~X.df THEN Raises(self, X, "AssertionError")
       ELSE IF self.action = "keep"
            THEN IF missing_columns # {} THEN Raises(self, X, "AssertionError")
                 ELSE Returns(self, X, SelectCols(X, columns_to_keep))
       ELSE IF self.action = "drop"
            THEN Returns(self, X,
                         SelectCols(X, SelectSeq(X.cols, LAMBDA x : x \notin Range(columns_to_drop))))
       ELSE Returns(self, X, X)

CustomDropColumnsTransformer_fit_transform(self, X, y) ==
    CustomDropColumnsTransformer_transform(self, X)

\* a column holding a string cannot be compared or subtracted: TypeError
HasStr(values) == \E i \in 1..Len(values) : IsStr(values[i])

(***************************************************************************)
(* CustomSigma3Transformer                                                 *)
(***************************************************************************)
CustomSigma3Transformer(target_column) ==
    [kind |-> "Sigma3", target_column |-> target_column, high_wall |-> None, low_wall |-> None]

CustomSigma3Transformer_fit(self, X, y) ==
    LET c == self.target_column
        mean == Mean(X.cell[c])
        std == Std(X.cell[c])
    IN IF ~X.df THEN Raises(self, X, "AssertionError")
       ELSE IF ~HasCol(X, c) THEN Raises(self, X, "AssertionError")
       ELSE IF ~IsNumericDtype(X, c) THEN Raises(self, X, "AssertionError")
       ELSE Returns([self EXCEPT !.low_wall = RSub(mean, RMul(Whole(3), std)),
                                 !.high_wall = RAdd(mean, RMul(Whole(3), std))],
                    X, NotATable)

\* the transform without its fitted check (the assert compiled away)
CustomSigma3Transformer_transform_unchecked(self, X) ==
    LET c == self.target_column
    IN IF ~X.df \/ ~HasCol(X, c) THEN Raises(self, X, "AssertionError")
       ELSE IF HasStr(X.cell[c]) THEN Raises(self, X, "TypeError")
       ELSE Returns(self, X,
                    SetCol(X, c, Clip(X.cell[c], self.low_wall, self.high_wall), X.dtype[c]))

CustomSigma3Transformer_transform(self, X) ==
    LET c == self.target_column
        X_transformed == X
    IN IF IsNone(self.high_wall) \/ IsNone(self.low_wall) THEN Raises(self, X, "AssertionError")
       ELSE IF ~X.df THEN Raises(self, X, "AssertionError")
       ELSE IF ~HasCol(X, c) THEN Raises(self, X, "AssertionError")
       ELSE IF HasStr(X.cell[c]) THEN Raises(self, X, "TypeError")
       ELSE Returns(self, X,
                    SetCol(X_transformed, c,
                           Clip(X_transformed.cell[c], self.low_wall, self.high_wall),
                           X.dtype[c]))

CustomSigma3Transformer_fit_transform(self, X, y) ==
    CHOOSE r \in {IF f.ok THEN CustomSigma3Transformer_transform(f.self, f.X) ELSE f :
                     f \in {CustomSigma3Transformer_fit(self, X, y)}} : TRUE

(***************************************************************************)
(* CustomTukeyTransformer                                                  *)
(***************************************************************************)
CustomTukeyTransformer(target_column, fence) ==
    [kind |-> "Tukey", target_column |-> target_column, fence |-> fence,
     inner_low |-> None, outer_low |-> None, inner_high |-> None, outer_high |-> None]

\* 1.5 and 3.0
OneAndAHalf == Num(3, 2)
Three == Whole(3)

CustomTukeyTransformer_fit(self, X, y) ==
    LET c == self.target_column
        q1 == Quantile(X.cell[c], 1, 4)
        q3 == Quantile(X.cell[c], 3, 4)
        iqr == RSub(q3, q1)
    IN IF ~X.df THEN Raises(self, X, "AssertionError")
       ELSE IF ~HasCol(X, c) THEN Raises(self, X, "AssertionError")
       ELSE IF ~IsNumericDtype(X, c) THEN Raises(self, X, "AssertionError")
       ELSE IF self.fence \notin {"inner", "outer"} THEN Raises(self, X, "AssertionError")
       ELSE Returns([self EXCEPT !.inner_low = RSub(q1, RMul(OneAndAHalf, iqr)),
                                 !.inner_high = RAdd(q3, RMul(OneAndAHalf, iqr)),
                                 !.outer_low = RSub(q1, RMul(Three, iqr)),
                                 !.outer_high = RAdd(q3, RMul(Three, iqr))],
                    X, NotATable)

CustomTukeyTransformer_transform(self, X) ==
    LET c == self.target_column
        X_transformed == X
    IN IF IsNone(self.inner_low) \/ IsNone(self.inner_high) THEN Raises(self, X, "AssertionError")
       ELSE IF ~X.df THEN Raises(self, X, "AssertionError")
       ELSE IF ~HasCol(X, c) THEN Raises(self, X, "AssertionError")
       ELSE IF HasStr(X.cell[c]) THEN Raises(self, X, "TypeError")
       ELSE IF self.fence = "inner"
            THEN Returns(self, X,
                         SetCol(X_transformed, c,
                                Clip(X_transformed.cell[c], self.inner_low, self.inner_high),
                                X.dtype[c]))
       ELSE Returns(self, X,
                    SetCol(X_transformed, c,
                           Clip(X_transformed.cell[c], self.outer_low, self.outer_high),
                           X.dtype[c]))

CustomTukeyTransformer_fit_transform(self, X, y) ==
    CHOOSE r \in {IF f.ok THEN CustomTukeyTransformer_transform(f.self, f.X) ELSE f :
                     f \in {CustomTukeyTransformer_fit(self, X, y)}} : TRUE

(***************************************************************************)
(* CustomRobustTransformer                                                 *)
(***************************************************************************)
CustomRobustTransformer(target_column) ==
    [kind |-> "Robust", target_column |-> target_column, iqr |-> None, med |-> None]

CustomRobustTransformer_fit(self, X, y) ==
    LET c == self.target_column
        q1 == Quantile(X.cell[c], 1, 4)
        q3 == Quantile(X.cell[c], 3, 4)
    IN IF ~X.df THEN Raises(self, X, "AttributeError")
       ELSE IF ~HasCol(X, c) THEN Raises(self, X, "AssertionError")
       ELSE IF HasStr(X.cell[c]) THEN Raises(self, X, "TypeError")
       ELSE Returns([self EXCEPT !.iqr = RSub(q3, q1), !.med = Median(X.cell[c])],
                    X, NotATable)

\* a scaling that does not subtract the median
ScaleUncentered(values, med, iqr) ==
    [i \in 1..Len(values) |-> RDiv(values[i], iqr)]

\* (X[c] - med) / iqr
Scale(values, med, iqr) ==
    [i \in 1..Len(values) |-> RDiv(RSub(values[i], med), iqr)]

\* the transform learning median and IQR again from the table it is given
CustomRobustTransformer_transform_refit(self, X) ==
    LET f == CustomRobustTransformer_fit(self, X, None)
    IN IF IsNone(self.iqr) \/ IsNone(self.med) THEN Raises(self, X, "AssertionError")
       ELSE IF ~f.ok THEN f
       ELSE IF f.self.iqr # Whole(0)
            THEN Returns(f.self, X,
                         SetCol(X, self.target_column,
                                Scale(X.cell[self.target_column], f.self.med, f.self.iqr), "num"))
       ELSE Returns(f.self, X, X)

CustomRobustTransformer_transform(self, X) ==
    LET c == self.target_column
        X_transformed == X
    IN IF IsNone(self.iqr) \/ IsNone(self.med) THEN Raises(self, X, "AssertionError")
       ELSE IF ~X.df THEN Raises(self, X, "AttributeError")
       ELSE IF self.iqr # Whole(0)
            THEN IF ~HasCol(X, c) THEN Raises(self, X, "KeyError")
                 ELSE IF HasStr(X.cell[c]) THEN Raises(self, X, "TypeError")
                 ELSE Returns(self, X,
                              SetCol(X_transformed, c, Scale(X.cell[c], self.med, self.iqr), "num"))
       ELSE Returns(self, X, X_transformed)

\* TransformerMixin.fit_transform
CustomRobustTransformer_fit_transform(self, X, y) ==
    CHOOSE r \in {IF f.ok THEN CustomRobustTransformer_transform(f.self, f.X) ELSE f :
                     f \in {CustomRobustTransformer_fit(self, X, y)}} : TRUE

(***************************************************************************)
(* CustomKNNTransformer.  The wrapped KNNImputer(weights='uniform'): a     *)
(* missing cell becomes the mean of the column over the nearest            *)
(* n_neighbors training rows that hold the column (nan-euclidean distance  *)
(* over the columns both rows hold; rows at no defined distance get no     *)
(* weight); when no training row is at a defined distance, the mean of the *)
(* column over the training table.  Ties at the last neighbour are broken  *)
(* by numpy's partition order, which the model does not fix.               *)
(***************************************************************************)
\* the imputer before fit, and a fitted one with the training table it holds
UnfittedImputer == [fitted |-> FALSE, fit_X |-> NotATable]

CustomKNNTransformer(n_neighbors) ==
    [kind |-> "KNN", n_neighbors |-> n_neighbors, weights |-> "uniform",
     imputer |-> UnfittedImputer, fitted |-> FALSE, columns_ |-> <<>>]

\* what sklearn's input validation rejects: no DataFrame, no row, no column,
\* a string cell
ImputerRejects(X) ==
    \/ ~X.df
    \/ X.nrows = 0
    \/ X.cols = <<>>
    \/ \E c \in Range(X.cols) : HasStr(X.cell[c])

\* a column with no observed value in the training table: the imputer
\* leaves it out of its output
EmptyFeature(fit_X, c) == Present(fit_X.cell[c]) = <<>>

\* the training rows that hold column c
Donors(fit_X, c) == {t \in 1..fit_X.nrows : IsNum(fit_X.cell[c][t])}

\* the columns both row r of X and row t of fit_X hold
Shared(fit_X, X, r, t) ==
    {j \in Range(X.cols) : IsNum(X.cell[j][r]) /\ IsNum(fit_X.cell[j][t])}

RECURSIVE SumSquares(_, _, _, _, _)
SumSquares(fit_X, X, r, t, columns) ==
    IF columns = {} THEN Whole(0)
    ELSE LET j == CHOOSE j \in columns : TRUE
             diff == RSub(X.cell[j][r], fit_X.cell[j][t])
         IN RAdd(RMul(diff, diff), SumSquares(fit_X, X, r, t, columns \ {j}))

\* the squared nan-euclidean distance: the squared differences over the
\* shared columns, scaled by (number of columns / number shared)
Distance2(fit_X, X, r, t) ==
    LET shared == Shared(fit_X, X, r, t)
    IN IF shared = {} THEN NaN
       ELSE RMul(Num(Len(X.cols), Cardinality(shared)), SumSquares(fit_X, X, r, t, shared))

\* the donors at a defined distance of row r of X
NearDonors(fit_X, X, r, c) == {t \in Donors(fit_X, c) : Shared(fit_X, X, r, t) # {}}

\* the nearest n of a set of donors
Nearest(fit_X, X, r, donors, n) ==
    CHOOSE S \in SUBSET donors :
        /\ Cardinality(S) = n
        /\ \A s_ \in S, t \in donors \ S :
              RLeq(Distance2(fit_X, X, r, s_), Distance2(fit_X, X, r, t))

RECURSIVE SumOver(_, _, _)
SumOver(fit_X, c, rows) ==
    IF rows = {} THEN Whole(0)
    ELSE LET t == CHOOSE t \in rows : TRUE
         IN RAdd(fit_X.cell[c][t], SumOver(fit_X, c, rows \ {t}))

Min(a, b) == IF a < b THEN a ELSE b

Impute(fit_X, X, r, c, n_neighbors) ==
    LET donors == Donors(fit_X, c)
        near == NearDonors(fit_X, X, r, c)
        rows == IF near = {} THEN donors
                ELSE Nearest(fit_X, X, r, near,
                             Min(Min(n_neighbors, Cardinality(donors)), Cardinality(near)))
    IN IF IsNum(X.cell[c][r]) THEN X.cell[c][r]
       ELSE RDiv(SumOver(fit_X, c, rows), Whole(Cardinality(rows)))

CustomKNNTransformer_fit(self, X, y) ==
    IF ImputerRejects(X) THEN Raises(self, X, "ValueError")
    ELSE Returns([self EXCEPT !.imputer = [fitted |-> TRUE, fit_X |-> X],
                              !.fitted = TRUE,
                              !.columns_ = X.cols],
                 X, NotATable)

CustomKNNTransformer_transform(self, X) ==
    LET fit_X == self.imputer.fit_X
    IN IF ~self.fitted THEN Raises(self, X, "ValueError")
       ELSE IF ImputerRejects(X) THEN Raises(self, X, "ValueError")
       \* the feature names must be those seen at fit, in the same order
       ELSE IF X.cols # fit_X.cols THEN Raises(self, X, "ValueError")
       \* a column dropped by the imputer: the array no longer fits X.columns
       ELSE IF \E c \in Range(X.cols) : EmptyFeature(fit_X, c) THEN Raises(self, X, "ValueError")
       ELSE Returns(self, X,
                    [X EXCEPT !.cell = [c \in DOMAIN @ |->
                                           [r \in 1..X.nrows |-> Impute(fit_X, X, r, c, self.n_neighbors)]],
                              !.dtype = [c \in DOMAIN @ |-> "num"]])

CustomKNNTransformer_fit_transform(self, X, y) ==
    CHOOSE r \in {IF f.ok THEN CustomKNNTransformer_transform(f.self, f.X) ELSE f :
                     f \in {CustomKNNTransformer_fit(self, X, y)}} : TRUE

(***************************************************************************)
(* CustomTargetTransformer                                                 *)
(***************************************************************************)
\* Python's None for a dictionary attribute, and a dictionary
NoDict == [none |-> TRUE, items |-> [x \in {} |-> x]]
Dict(items) == [none |-> FALSE, items |-> items]

\* the labels passed as y: None, or a sequence of label values
NoLabels == [none |-> TRUE, vals |-> <<>>]
Labels(vals) == [none |-> FALSE, vals |-> vals]

CustomTargetTransformer(col, smoothing) ==
    [kind |-> "Target", col |-> col, smoothing |-> smoothing,
     global_mean_ |-> None, encoding_dict_ |-> NoDict]

\* the rows of a category
RowsOf(values, category) == {i \in 1..Len(values) : values[i] = category}

\* value_counts() and groupby(): the distinct values, missing ones left out
Categories(values) == {values[i] : i \in 1..Len(values)} \ {NaN, None}

\* the labels of the rows of a category, in row order
LabelsOf(values, vals, category) ==
    LET idx == SelectSeq([i \in 1..Len(values) |-> i], LAMBDA i : values[i] = category)
    IN [j \in 1..Len(idx) |-> vals[idx[j]]]

\* an encoding without the smoothing
SmoothedMeanUnsmoothed(n, category_mean, smoothing, global_mean) == category_mean

\* the smoothing formula: (n * cat_mean + m * global_mean) / (n + m)
SmoothedMean(n, category_mean, smoothing, global_mean) ==
    RDiv(RAdd(RMul(Whole(n), category_mean), RMul(smoothing, global_mean)),
         RAdd(Whole(n), smoothing))

\* a fit that stores the global mean before it checks its arguments
CustomTargetTransformer_fit_assigning_first(self, X, y) ==
    LET started == [self EXCEPT !.global_mean_ = Mean(y.vals)]
    IN IF ~X.df \/ ~HasCol(X, self.col) \/ y.none \/ X.nrows # Len(y.vals)
       THEN Raises(started, X, "AssertionError")
       ELSE Returns([started EXCEPT !.encoding_dict_ =
                        Dict([category \in Categories(X.cell[self.col]) |->
                                SmoothedMean(Cardinality(RowsOf(X.cell[self.col], category)),
                                             Mean(LabelsOf(X.cell[self.col], y.vals, category)),
                                             self.smoothing, Mean(y.vals))])],
                    X, NotATable)

\* fit that adds to the dictionary it has: update in place of assignment
CustomTargetTransformer_fit_keeping_earlier(self, X, y) ==
    LET values == X.cell[self.col]
        global_mean == Mean(y.vals)
        seen == Categories(values)
        earlier == self.encoding_dict_.items
    IN IF ~X.df \/ ~HasCol(X, self.col) \/ y.none \/ X.nrows # Len(y.vals)
       THEN Raises(self, X, "AssertionError")
       ELSE Returns([self EXCEPT !.global_mean_ = global_mean,
                                 !.encoding_dict_ =
                        Dict([category \in seen \cup DOMAIN earlier |->
                                IF category \in seen
                                THEN SmoothedMean(Cardinality(RowsOf(values, category)),
                                                  Mean(LabelsOf(values, y.vals, category)),
                                                  self.smoothing, global_mean)
                                ELSE earlier[category]])],
                    X, NotATable)

CustomTargetTransformer_fit(self, X, y) ==
    LET values == X.cell[self.col]
        global_mean == Mean(y.vals)
        smoothed_means ==
            [category \in Categories(values) |->
                SmoothedMean(Cardinality(RowsOf(values, category)),
                             Mean(LabelsOf(values, y.vals, category)),
                             self.smoothing, global_mean)]
    IN IF ~X.df THEN Raises(self, X, "AssertionError")
       ELSE IF ~HasCol(X, self.col) THEN Raises(self, X, "AssertionError")
       ELSE IF y.none THEN Raises(self, X, "AssertionError")
       ELSE IF X.nrows # Len(y.vals) THEN Raises(self, X, "AssertionError")
       ELSE Returns([self EXCEPT !.global_mean_ = global_mean,
                                 !.encoding_dict_ = Dict(smoothed_means)],
                    X, NotATable)

\* Series.map(dict): a value that is no key becomes NaN
MapDict(values, items) ==
    [i \in 1..Len(values) |-> IF values[i] \in DOMAIN items THEN items[values[i]] ELSE NaN]

\* the truth value of a dictionary attribute: None and {} are false
Truthy(dict) == ~dict.none /\ DOMAIN dict.items # {}

CustomTargetTransformer_transform(self, X) ==
    LET X_ == X
    IN IF ~X.df THEN Raises(self, X, "AssertionError")
       ELSE IF ~Truthy(self.encoding_dict_) THEN Raises(self, X, "AssertionError")
       ELSE IF ~HasCol(X, self.col) THEN Raises(self, X, "KeyError")
       ELSE Returns(self, X,
                    SetCol(X_, self.col, MapDict(X_.cell[self.col], self.encoding_dict_.items), "num"))

CustomTargetTransformer_fit_transform(self, X, y) ==
    CHOOSE r \in {IF f.ok THEN CustomTargetTransformer_transform(f.self, f.X) ELSE f :
                     f \in {CustomTargetTransformer_fit(self, X, y)}} : TRUE

(***************************************************************************)
(* Method dispatch on the operator's class.                                *)
(***************************************************************************)
Fit(self, X, y) ==
    CASE self.kind = "Mapping" -> CustomMappingTransformer_fit(self, X, y)
      [] self.kind = "OHE" -> CustomOHETransformer_fit(self, X, y)
      [] self.kind = "DropColumns" -> CustomDropColumnsTransformer_fit(self, X, y)
      [] self.kind = "Sigma3" -> CustomSigma3Transformer_fit(self, X, y)
      [] self.kind = "Tukey" -> CustomTukeyTransformer_fit(self, X, y)
      [] self.kind = "Robust" -> CustomRobustTransformer_fit(self, X, y)
      [] self.kind = "KNN" -> CustomKNNTransformer_fit(self, X, y)
      [] self.kind = "Target" -> CustomTargetTransformer_fit(self, X, y)

Transform(self, X) ==
    CASE self.kind = "Mapping" -> CustomMappingTransformer_transform(self, X)
      [] self.kind = "OHE" -> CustomOHETransformer_transform(self, X)
      [] self.kind = "DropColumns" -> CustomDropColumnsTransformer_transform(self, X)
      [] self.kind = "Sigma3" -> CustomSigma3Transformer_transform(self, X)
      [] self.kind = "Tukey" -> CustomTukeyTransformer_transform(self, X)
      [] self.kind = "Robust" -> CustomRobustTransformer_transform(self, X)
      [] self.kind = "KNN" -> CustomKNNTransformer_transform(self, X)
      [] self.kind = "Target" -> CustomTargetTransformer_transform(self, X)

FitTransform(self, X, y) ==
    CASE self.kind = "Mapping" -> CustomMappingTransformer_fit_transform(self, X, y)
      [] self.kind = "OHE" -> CustomOHETransformer_fit_transform(self, X, y)
      [] self.kind = "DropColumns" -> CustomDropColumnsTransformer_fit_transform(self, X, y)
      [] self.kind = "Sigma3" -> CustomSigma3Transformer_fit_transform(self, X, y)
      [] self.kind = "Tukey" -> CustomTukeyTransformer_fit_transform(self, X, y)
      [] self.kind = "Robust" -> CustomRobustTransformer_fit_transform(self, X, y)
      [] self.kind = "KNN" -> CustomKNNTransformer_fit_transform(self, X, y)
      [] self.kind = "Target" -> CustomTargetTransformer_fit_transform(self, X, y)

Stateful == {"Sigma3", "Tukey", "Robust", "KNN", "Target"}

(***************************************************************************)
(* The inputs: the operators a caller constructs and the tables it holds.  *)
(***************************************************************************)
CatVals == {Str("a"), Str("b")}
NumVals == {Whole(1), Whole(5), NaN}
LabelVals == {Whole(0), Whole(1)}

MappingKeys == {Str("a"), Str("b")}
MappingImages == {Str("a"), Str("b"), Str("c"), Whole(0)}
MappingDicts == UNION {[K -> MappingImages] : K \in SUBSET MappingKeys}

\* the fence values a caller passes or assigns: the two valid ones and
\* another
Fences == {"inner", "outer", "middle"}

ColumnLists == {<<>>, <<"cat">>, <<"cat", "num">>, <<"num", "cat">>, <<"zip">>}

Operators ==
    {CustomMappingTransformer("cat", d) : d \in MappingDicts}
    \cup {CustomOHETransformer("cat")}
    \cup {CustomDropColumnsTransformer(l, a) : l \in ColumnLists, a \in {"keep", "drop"}}
    \cup {CustomSigma3Transformer(c) : c \in {"cat", "num"}}
    \cup {CustomTukeyTransformer(c, f) : c \in {"cat", "num"}, f \in Fences}
    \cup {CustomRobustTransformer(c) : c \in {"cat", "num"}}
    \cup {CustomKNNTransformer(5)}
    \cup {CustomTargetTransformer("cat", Whole(10))}

\* the dtype of the columns the caller's tables are made of
DtypeOf(c) == IF c = "cat" THEN "obj" ELSE "num"

EmptyTable(cols) ==
    [df |-> TRUE, cols |-> cols, nrows |-> 0,
     cell |-> [c \in Range(cols) |-> <<>>],
     dtype |-> [c \in Range(cols) |-> DtypeOf(c)]]

ColumnChoices == {<<>>, <<"cat">>, <<"num">>, <<"cat", "num">>}

\* for the one-hot operator also a table that has a column named like an
\* indicator column
ColumnChoicesFor(o) ==
    IF o.kind = "OHE" THEN ColumnChoices \cup {<<"cat", "cat_a">>} ELSE ColumnChoices

\* the values of column cat: for the one-hot operator and the target
\* encoder also a missing value
CatValsFor(o) == IF o.kind \in {"OHE", "Target"} THEN CatVals \cup {NaN} ELSE CatVals

\* the values of the numeric columns: for the robust scaler also the median
\* of 1 and 5; two values for the operators that do not compute with them,
\* one for the target encoder, whose tables vary in column cat and the labels
NumValsFor(o) ==
    IF o.kind = "Robust" THEN NumVals \cup {Whole(3)}
    ELSE IF o.kind \in {"Sigma3", "Tukey", "KNN"} THEN NumVals
    ELSE IF o.kind = "Target" THEN {Whole(1)}
    ELSE {Whole(1), NaN}

\* the label arguments a caller may pass with table X: none, one label per
\* row, or one label too many
LabelChoices(X) ==
    {NoLabels}
    \cup {Labels(v) : v \in [1..X.nrows -> LabelVals]}
    \cup {Labels([i \in 1..(X.nrows + 1) |-> Whole(0)])}

(***************************************************************************)
(* sklearn's Pipeline over the operators (memory=None: the steps are fitted *)
(* in place, not cloned).  A pipeline is the sequence of its steps.         *)
(***************************************************************************)
PipelineResult(steps, ok, err, out, log) ==
    [steps |-> steps, ok |-> ok, err |-> err, out |-> out, log |-> log]

\* a pipeline fit that hands every step the table fit_transform was called
\* with, and chains only the outputs
RECURSIVE FitStepsOnInput(_, _, _, _, _, _)
FitStepsOnInput(steps, i, X0, Xt, labels, log) ==
    IF i > Len(steps) THEN PipelineResult(steps, TRUE, "", Xt, log)
    ELSE CHOOSE res \in
           {IF ~f.ok
            THEN PipelineResult([steps EXCEPT ![i] = f.self], FALSE, f.err, NotATable,
                                Append(log, X0))
            ELSE CHOOSE res2 \in
                   {IF ~r.ok
                    THEN PipelineResult([steps EXCEPT ![i] = r.self], FALSE, r.err, NotATable,
                                        Append(log, X0))
                    ELSE FitStepsOnInput([steps EXCEPT ![i] = r.self], i + 1, X0, r.out,
                                         labels, Append(log, X0))
                    : r \in {Transform(f.self, Xt)}} : TRUE
            : f \in {Fit(steps[i], X0, labels)}} : TRUE

\* steps i.. fitted in order, each by its fit_transform on the output of
\* the step before; the first exception ends the call.  log records the
\* table each step was fitted on.  (r is the one result of the step's
\* fit_transform.)
RECURSIVE FitSteps(_, _, _, _, _)
FitSteps(steps, i, Xt, labels, log) ==
    IF i > Len(steps) THEN PipelineResult(steps, TRUE, "", Xt, log)
    ELSE CHOOSE res \in
           {IF ~r.ok
            THEN PipelineResult([steps EXCEPT ![i] = r.self], FALSE, r.err, NotATable,
                                Append(log, Xt))
            ELSE FitSteps([steps EXCEPT ![i] = r.self], i + 1, r.out, labels, Append(log, Xt))
            : r \in {FitTransform(steps[i], Xt, labels)}} : TRUE

Pipeline_fit_transform_on_input(steps, X_, labels) ==
    FitStepsOnInput(steps, 1, X_, X_, labels, <<>>)

Pipeline_fit_transform(steps, X_, labels) == FitSteps(steps, 1, X_, labels, <<>>)

RECURSIVE TransformSteps(_, _, _)
TransformSteps(steps, i, Xt) ==
    IF i > Len(steps) THEN PipelineResult(steps, TRUE, "", Xt, <<>>)
    ELSE CHOOSE res \in
           {IF ~r.ok
            THEN PipelineResult([steps EXCEPT ![i] = r.self], FALSE, r.err, NotATable, <<>>)
            ELSE TransformSteps([steps EXCEPT ![i] = r.self], i + 1, r.out)
            : r \in {Transform(steps[i], Xt)}} : TRUE

\* a pipeline transform that fits the steps again on the table it is given
Pipeline_transform_refit(steps, X_) ==
    FitSteps(steps, 1, X_, Labels([i \in 1..X_.nrows |-> Whole(0)]), <<>>)

Pipeline_transform(steps, X_) == TransformSteps(steps, 1, X_)

(***************************************************************************)
(* The titanic pipeline.                                                   *)
(***************************************************************************)
titanic_transformer ==
    << CustomMappingTransformer("Gender",
           (Str("Male") :> Whole(0)) @@ (Str("Female") :> Whole(1))),
       CustomMappingTransformer("Class",
           (Str("Crew") :> Whole(0)) @@ (Str("C3") :> Whole(1))
               @@ (Str("C2") :> Whole(2)) @@ (Str("C1") :> Whole(3))),
       CustomTargetTransformer("Joined", Whole(10)),
       CustomTukeyTransformer("Age", "outer"),
       CustomTukeyTransformer("Fare", "outer"),
       CustomRobustTransformer("Age"),
       CustomRobustTransformer("Fare"),
       CustomKNNTransformer(5) >>

(***************************************************************************)
(* dataset_setup: the tables it is given and the stratified split.         *)
(***************************************************************************)
MaxTableRows == 7

TitanicColumns == <<"Gender", "Class", "Joined", "Age", "Fare", "Survived">>

TitanicDtype(c) == IF c \in {"Age", "Fare", "Survived"} THEN "num" ELSE "obj"

\* the passengers the tables are made of
Passengers ==
    << [Gender |-> Str("Male"), Class |-> Str("C3"), Joined |-> Str("a"),
        Age |-> Whole(1), Fare |-> Whole(1), Survived |-> Whole(0)],
       [Gender |-> Str("Female"), Class |-> Str("C1"), Joined |-> Str("b"),
        Age |-> Whole(9), Fare |-> Whole(5), Survived |-> Whole(1)],
       [Gender |-> Str("Female"), Class |-> Str("Crew"), Joined |-> Str("a"),
        Age |-> NaN, Fare |-> Whole(1), Survived |-> Whole(1)] >>

\* the table of a sequence of passengers
TableOf(rows) ==
    [df |-> TRUE, cols |-> TitanicColumns, nrows |-> Len(rows),
     cell |-> [c \in Range(TitanicColumns) |-> [i \in 1..Len(rows) |-> Passengers[rows[i]][c]]],
     dtype |-> [c \in Range(TitanicColumns) |-> TitanicDtype(c)]]

\* the tables dataset_setup is given: train_test_split shuffles the rows, so
\* the tables are taken up to row order
OriginalTables ==
    {TableOf(rows) : rows \in
        UNION {{r \in [1..n -> 1..Len(Passengers)] : \A i \in 1..(n - 1) : r[i] <= r[i + 1]}
               : n \in 0..MaxTableRows}}

\* the rows idx of a table, in the order of idx
Rows(X_, idx) ==
    [X_ EXCEPT !.nrows = Len(idx),
               !.cell = [c \in DOMAIN @ |-> [i \in 1..Len(idx) |-> @[c][idx[i]]]]]

\* the default test fraction, ts=.2
ts == Num(1, 5)

\* ceil(test_size * n_samples)
TestCount(n) == (ts.n * n + ts.d - 1) \div ts.d

Floor(a, b) == a \div b

\* what train_test_split(..., stratify=labels) rejects: an empty train
\* partition, a class with one member, fewer rows in a partition than classes
SplitRejects(labels) ==
    LET n == Len(labels)
        classes == Range(labels)
        n_test == TestCount(n)
        n_train == n - n_test
    IN \/ n = 0
       \/ n_train = 0
       \/ \E c \in classes : Cardinality(RowsOf(labels, c)) < 2
       \/ n_train < Cardinality(classes)
       \/ n_test < Cardinality(classes)

\* the classes that get one row more than the rounded-down share: the ones
\* with the largest remainders, ties broken by the seed
RoundedUp(labels, n_draws) ==
    LET n == Len(labels)
        classes == Range(labels)
        k(c) == Cardinality(RowsOf(labels, c))
        floored == [c \in classes |-> Floor(n_draws * k(c), n)]
        RECURSIVE Total(_)
        Total(S) == IF S = {} THEN 0
                    ELSE LET c == CHOOSE c \in S : TRUE IN floored[c] + Total(S \ {c})
        need_to_add == n_draws - Total(classes)
    IN {A \in SUBSET classes :
           /\ Cardinality(A) = need_to_add
           /\ \A c \in A, e \in classes \ A : (n_draws * k(c)) % n >= (n_draws * k(e)) % n}

\* the test partitions a seed may give: the train partition takes from each
\* class its share of the train rows, the test partition the other rows
TestRows(labels) ==
    LET n == Len(labels)
        n_train == n - TestCount(n)
    IN {T \in SUBSET (1..n) :
           \E A \in RoundedUp(labels, n_train) :
              \A c \in Range(labels) :
                 Cardinality(RowsOf(labels, c) \ T) =
                     Floor(n_train * Cardinality(RowsOf(labels, c)), n)
                         + (IF c \in A THEN 1 ELSE 0)}

\* the members of a set of row numbers, in increasing order
Ordered(S) == SelectSeq([i \in 1..MaxTableRows + 1 |-> i], LAMBDA i : i \in S)

(***************************************************************************)
(* find_random_state.  One iteration splits the table with seed i, fits    *)
(* the pipeline on the train partition and scores a classifier on both     *)
(* partitions; the iteration is represented by the counts f1_score is      *)
(* computed from.                                                          *)
(***************************************************************************)
MaxSeeds == 3
MaxHits == 2

\* the predictions of one partition: true positives, and the false
\* positives and false negatives together
Predictions == [tp : 0..MaxHits, wrong : {0, 1, 19}]

\* sklearn's f1_score for binary labels: 2tp / (2tp + fp + fn), and 0.0
\* where nothing is positive
f1_score(p) == IF 2 * p.tp + p.wrong = 0 THEN Whole(0) ELSE Num(2 * p.tp, 2 * p.tp + p.wrong)

\* train_f1 < 0.1
TooLow(train_f1) == RLess(train_f1, Num(1, 10))

RAbs(a) == IF IsNum(a) THEN [a EXCEPT !.n = Abs(@)] ELSE NaN

\* np.mean of a list: nan for the empty list
np_mean(values) == IF values = <<>> THEN NaN ELSE RDiv(SumSeq(values), Whole(Len(values)))

\* the position (from 1) numpy's argmin gives: the first smallest element
FirstSmallest(values) ==
    CHOOSE j \in 1..Len(values) :
        /\ \A k \in 1..Len(values) : RLeq(values[j], values[k])
        /\ \A k \in 1..(j - 1) : RLess(values[j], values[k])

\* np.abs(np.array(Var) - mean_f1_ratio)
DistancesToMean(Var) == [j \in 1..Len(Var) |-> RAbs(RSub(Var[j], np_mean(Var)))]

\* line 1021: the 0-based index of the ratio closest to the mean
ArgminOfVar(Var) == FirstSmallest(DistancesToMean(Var)) - 1

\* find_random_state not called
NoSearch == [pc |-> "idle", n |-> 0, i |-> 0, Var |-> <<>>, rs_value |-> -1, err |-> ""]

(***************************************************************************)
(* threshold_results.  The actual labels are 0 or 1, the predictions and   *)
(* the thresholds are probabilities; one row is appended per threshold     *)
(* and the finished table is rounded to two decimals.                      *)
(***************************************************************************)
MaxPreds == 3

\* line 1123 with > in place of >=
yhat_strict(predicted, t) ==
    [k \in 1..Len(predicted) |-> IF RLess(t, predicted[k]) THEN 1 ELSE 0]

\* line 1123: yhat = [1 if v >= t else 0 for v in predicted]
yhat_of(predicted, t) ==
    [k \in 1..Len(predicted) |-> IF RLeq(t, predicted[k]) THEN 1 ELSE 0]

\* the number of positions where the actual label is a and the predicted one p
Count(actuals, yhat, a, p) ==
    Cardinality({k \in 1..Len(actuals) : actuals[k] = a /\ yhat[k] = p})

\* a ratio of counts with sklearn's zero_division=0
Ratio(n, d) == IF d = 0 THEN Whole(0) ELSE Num(n, d)

\* tp / (tp + fp)
precision_score(actuals, yhat) ==
    Ratio(Count(actuals, yhat, 1, 1),
          Count(actuals, yhat, 1, 1) + Count(actuals, yhat, 0, 1))

\* tp / (tp + fn)
recall_score(actuals, yhat) ==
    Ratio(Count(actuals, yhat, 1, 1),
          Count(actuals, yhat, 1, 1) + Count(actuals, yhat, 1, 0))

\* 2tp / (2tp + fp + fn), for labels given position by position
f1_score_of(actuals, yhat) ==
    Ratio(2 * Count(actuals, yhat, 1, 1),
          2 * Count(actuals, yhat, 1, 1) + Count(actuals, yhat, 0, 1)
              + Count(actuals, yhat, 1, 0))

\* the share of positions predicted right
accuracy_score(actuals, yhat) ==
    Num(Count(actuals, yhat, 1, 1) + Count(actuals, yhat, 0, 0), Len(actuals))

\* roc_auc_score is not defined when the actual labels hold one class
OneClass(actuals) == Cardinality(Range(actuals)) < 2

\* the area under the ROC curve of the scores: the share of (positive,
\* negative) pairs the scores order rightly, a tie counting for half
roc_auc_score(actuals, predicted) ==
    LET pairs == {q \in (1..Len(actuals)) \X (1..Len(actuals)) :
                     actuals[q[1]] = 1 /\ actuals[q[2]] = 0}
        right == {q \in pairs : RLess(predicted[q[2]], predicted[q[1]])}
        ties == {q \in pairs : predicted[q[1]] = predicted[q[2]]}
    IN IF OneClass(actuals) THEN NaN
       ELSE Num(2 * Cardinality(right) + Cardinality(ties), 2 * Cardinality(pairs))

\* numpy's round to two decimals of a non-negative number: to the nearest
\* hundredth, a tie to the even one
Round2(v) ==
    IF ~IsNum(v) THEN v
    ELSE LET q == (100 * v.n) \div v.d
             rem == 100 * v.n - q * v.d
         IN IF 2 * rem < v.d \/ (2 * rem = v.d /\ q % 2 = 0)
            THEN Num(q, 100) ELSE Num(q + 1, 100)

\* line 1129: the row of threshold t
ThresholdRow(t, actuals, predicted) ==
    LET yhat == yhat_of(predicted, t)
    IN [threshold |-> t,
        precision |-> precision_score(actuals, yhat),
        recall |-> recall_score(actuals, yhat),
        f1 |-> f1_score_of(actuals, yhat),
        auc |-> roc_auc_score(actuals, predicted),
        accuracy |-> accuracy_score(actuals, yhat)]

\* line 1131: result_df.round(2)
RoundRow(row) == [c \in DOMAIN row |-> Round2(row[c])]

\* the thresholds and the probabilities
Probabilities == {Num(3, 10), Num(1, 2), Num(7, 10)}

ThresholdLists ==
    { <<>>, <<Num(1, 2)>>, <<Num(1, 2), Num(1, 2)>>, <<Num(7, 10), Num(3, 10)>>,
      <<Num(3, 10), Num(1, 2), Num(7, 10)>>, <<Num(29, 100), Num(1, 2), Num(701, 1000)>> }

\* the actual/predicted pairs: as many labels as predictions, at least one
Pairs ==
    UNION {[actuals : [1..n -> {0, 1}], predicted : [1..n -> Probabilities]] : n \in 1..MaxPreds}

\* threshold_results not called
NoSweep ==
    [pc |-> "idle", thresh_list |-> <<>>, actuals |-> <<>>, predicted |-> <<>>,
     undefined_auc |-> "", i |-> 0, result_df |-> <<>>, err |-> ""]

(***************************************************************************)
(* State.                                                                  *)
(***************************************************************************)
VARIABLES
    op,     \* the operator object
    X,      \* the caller's table
    y,      \* the labels passed to the last fit
    call,   \* the last call: "none", "fit" or "transform"
    ret,    \* what the last call returned or raised
    fit_succeeded,  \* history: a fit call on op has returned
    refitted,   \* history: the last call was a fit that replaced fitted parameters
    the_transformer,    \* the pipeline object dataset_setup is given
    ds,     \* dataset_setup's frame: its position, arguments and locals
    fit_log,    \* history: the pipeline fits of this dataset_setup call
    frs,    \* find_random_state's frame: its position, n, i, Var and result
    evaluated,  \* history: the seeds evaluated, with their scores
    thr     \* threshold_results' frame: its position, arguments and result_df

opVars == <<op, X, y, call, ret, fit_succeeded, refitted>>
dsVars == <<the_transformer, ds, fit_log>>
frsVars == <<frs, evaluated>>
thrVars == <<thr>>
vars == <<op, X, y, call, ret, fit_succeeded, refitted, the_transformer, ds, fit_log, frs, evaluated, thr>>

NoRet == [ok |-> FALSE, err |-> "", out |-> NotATable]

Outcome(r) == [ok |-> r.ok, err |-> r.err, out |-> r.out]

\* dataset_setup not called
NoFrame ==
    [pc |-> "idle", original_table |-> NotATable, label_column_name |-> "",
     X_train |-> NotATable, X_test |-> NotATable, y_train |-> NoLabels, y_test |-> NoLabels,
     X_train_transformed |-> NotATable, X_test_transformed |-> NotATable, err |-> ""]

NoFitLog == [count |-> 0, before |-> <<>>, inputs |-> <<>>, after |-> <<>>]

\* no operator under test
OpIdle ==
    /\ op = CustomOHETransformer("cat")
    /\ X = NotATable
    /\ y = NoLabels
    /\ call = "none"
    /\ ret = NoRet
    /\ fit_succeeded = FALSE
    /\ refitted = FALSE

DsIdle ==
    /\ the_transformer = <<>>
    /\ ds = NoFrame
    /\ fit_log = NoFitLog

FrsIdle ==
    /\ frs = NoSearch
    /\ evaluated = <<>>

ThrIdle == thr = NoSweep

(***************************************************************************)
(* The operators specification: one operator, constructed by the caller,   *)
(* and the caller's table; the caller builds tables and calls fit and      *)
(* transform in any order.                                                 *)
(***************************************************************************)
Init ==
    /\ op \in Operators
    /\ X = EmptyTable(<<"cat", "num">>)
    /\ y = NoLabels
    /\ call = "none"
    /\ ret = NoRet
    /\ fit_succeeded = FALSE
    /\ refitted = FALSE
    /\ DsIdle
    /\ FrsIdle
    /\ ThrIdle

\* the caller starts a new table
NewTable ==
    /\ \E cols \in ColumnChoicesFor(op) : X' = EmptyTable(cols)
    /\ y' = NoLabels /\ call' = "none" /\ ret' = NoRet /\ refitted' = FALSE
    /\ UNCHANGED <<op, fit_succeeded, dsVars, frsVars, thrVars>>

\* the caller holds something that is no DataFrame
NoTable ==
    /\ X' = NotATable
    /\ y' = NoLabels /\ call' = "none" /\ ret' = NoRet /\ refitted' = FALSE
    /\ UNCHANGED <<op, fit_succeeded, dsVars, frsVars, thrVars>>

\* the caller appends a row
AddRow ==
    /\ X.df /\ X.nrows < MaxRows
    /\ \E cv \in CatValsFor(op), nv \in NumValsFor(op) :
          X' = [X EXCEPT !.nrows = @ + 1,
                         !.cell = [c \in DOMAIN @ |-> Append(@[c], IF c = "cat" THEN cv ELSE nv)]]
    /\ y' = NoLabels /\ call' = "none" /\ ret' = NoRet /\ refitted' = FALSE
    /\ UNCHANGED <<op, fit_succeeded, dsVars, frsVars, thrVars>>

\* the caller assigns the fence attribute of a Tukey operator
SetFence ==
    /\ op.kind = "Tukey"
    /\ \E fence \in Fences \ {op.fence} : op' = [op EXCEPT !.fence = fence]
    /\ y' = NoLabels /\ call' = "none" /\ ret' = NoRet /\ refitted' = FALSE
    /\ UNCHANGED <<X, fit_succeeded, dsVars, frsVars, thrVars>>

CallFit ==
    \E labels \in (IF op.kind = "Target" THEN LabelChoices(X) ELSE {NoLabels}) :
        LET r == Fit(op, X, labels)
        IN /\ op' = r.self
           /\ X' = r.X
           /\ y' = labels
           /\ call' = "fit"
           /\ ret' = Outcome(r)
           /\ fit_succeeded' = (fit_succeeded \/ r.ok)
           /\ refitted' = (r.ok /\ fit_succeeded /\ r.self # op)
           /\ UNCHANGED <<dsVars, frsVars, thrVars>>

CallTransform ==
    LET r == Transform(op, X)
    IN /\ op' = r.self
       /\ X' = r.X
       /\ y' = NoLabels
       /\ call' = "transform"
       /\ ret' = Outcome(r)
       /\ refitted' = FALSE
       /\ UNCHANGED <<fit_succeeded, dsVars, frsVars, thrVars>>

Next == NewTable \/ NoTable \/ AddRow \/ SetFence \/ CallFit \/ CallTransform

Spec == Init /\ [][Next]_vars

(***************************************************************************)
(* The dataset_setup specification: one call of dataset_setup on a table,  *)
(* with the shared titanic pipeline as it is at import or as an earlier    *)
(* call left it.                                                           *)
(***************************************************************************)
\* the training partition of an earlier call
EarlierTrain == TableOf(<<1, 1, 2, 3>>)

Features(table, label_column_name) ==
    SelectCols(table, SelectSeq(table.cols, LAMBDA c : c # label_column_name))

EarlierPipeline ==
    Pipeline_fit_transform(titanic_transformer, Features(EarlierTrain, "Survived"),
                           Labels(EarlierTrain.cell["Survived"])).steps

DsInit ==
    /\ OpIdle
    /\ the_transformer \in {titanic_transformer, EarlierPipeline}
    /\ \E table \in OriginalTables, label \in {"Survived", "Rating"} :
          ds = [NoFrame EXCEPT !.pc = "split", !.original_table = table,
                               !.label_column_name = label]
    /\ fit_log = NoFitLog
    /\ FrsIdle
    /\ ThrIdle

\* lines 1213-1220: features, labels and the split
DsSplit ==
    /\ ds.pc = "split"
    /\ IF ~HasCol(ds.original_table, ds.label_column_name)
       THEN ds' = [ds EXCEPT !.pc = "raised", !.err = "KeyError"]
       ELSE LET features == Features(ds.original_table, ds.label_column_name)
                labels == ds.original_table.cell[ds.label_column_name]
            IN IF SplitRejects(labels)
               THEN ds' = [ds EXCEPT !.pc = "raised", !.err = "ValueError"]
               ELSE \E T \in TestRows(labels) :
                       LET test == Ordered(T)
                           train == Ordered((1..Len(labels)) \ T)
                       IN ds' = [ds EXCEPT !.pc = "fit",
                                           !.X_train = Rows(features, train),
                                           !.X_test = Rows(features, test),
                                           !.y_train = Labels([i \in 1..Len(train) |-> labels[train[i]]]),
                                           !.y_test = Labels([i \in 1..Len(test) |-> labels[test[i]]])]
    /\ UNCHANGED <<opVars, the_transformer, fit_log, frsVars, thrVars>>

\* line 1223: the_transformer.fit_transform(X_train, y_train)
DsFitTransform ==
    /\ ds.pc = "fit"
    /\ \E r \in {Pipeline_fit_transform(the_transformer, ds.X_train, ds.y_train)} :
          /\ the_transformer' = r.steps
          /\ fit_log' = [count |-> fit_log.count + 1, before |-> the_transformer,
                        inputs |-> r.log, after |-> r.steps]
          /\ ds' = IF r.ok THEN [ds EXCEPT !.pc = "transform", !.X_train_transformed = r.out]
                   ELSE [ds EXCEPT !.pc = "raised", !.err = r.err]
    /\ UNCHANGED <<opVars, frsVars, thrVars>>

\* lines 1226-1234: the_transformer.transform(X_test), and the return
DsTransform ==
    /\ ds.pc = "transform"
    /\ \E r \in {Pipeline_transform(the_transformer, ds.X_test)} :
          /\ the_transformer' = r.steps
          /\ ds' = IF r.ok THEN [ds EXCEPT !.pc = "returned", !.X_test_transformed = r.out]
                   ELSE [ds EXCEPT !.pc = "raised", !.err = r.err]
    /\ UNCHANGED <<opVars, fit_log, frsVars, thrVars>>

DsNext == DsSplit \/ DsFitTransform \/ DsTransform

DsSpec == DsInit /\ [][DsNext]_vars

(***************************************************************************)
(* The find_random_state specification: one call, over seeds 0..n-1.       *)
(***************************************************************************)
FrsInit ==
    /\ OpIdle
    /\ DsIdle
    /\ \E n \in 0..MaxSeeds : frs = [NoSearch EXCEPT !.pc = "loop", !.n = n]
    /\ evaluated = <<>>
    /\ ThrIdle

\* lines 995-1018: the iteration for seed i
FrsIterate ==
    /\ frs.pc = "loop"
    /\ frs.i < frs.n
    /\ \E train \in Predictions, test \in Predictions :
          LET train_f1 == f1_score(train)
              test_f1 == f1_score(test)
          IN /\ frs' = [frs EXCEPT !.i = @ + 1,
                                   !.Var = IF TooLow(train_f1) THEN @
                                           ELSE Append(@, RDiv(test_f1, train_f1))]
             /\ evaluated' = Append(evaluated, [seed |-> frs.i, train_f1 |-> train_f1,
                                                test_f1 |-> test_f1])
    /\ UNCHANGED <<opVars, dsVars, thrVars>>

\* lines 1020-1023: the mean, the argmin and the return; argmin of an
\* empty array raises ValueError
FrsReturn ==
    /\ frs.pc = "loop"
    /\ frs.i = frs.n
    /\ frs' = IF frs.Var = <<>>
              THEN [frs EXCEPT !.pc = "raised", !.err = "ValueError"]
              ELSE [frs EXCEPT !.pc = "returned", !.rs_value = ArgminOfVar(frs.Var)]
    /\ UNCHANGED <<opVars, dsVars, evaluated, thrVars>>

FrsNext == FrsIterate \/ FrsReturn

FrsSpec == FrsInit /\ [][FrsNext]_vars

(***************************************************************************)
(* The threshold_results specification: one call.  roc_auc_score on labels *)
(* of one class raises ValueError in some releases of the library and      *)
(* gives nan in others; undefined_auc is the release's behaviour.          *)
(***************************************************************************)
ThrInit ==
    /\ OpIdle
    /\ DsIdle
    /\ FrsIdle
    /\ \E thresh_list \in ThresholdLists, pair \in Pairs, undefined \in {"raise", "nan"} :
          thr = [NoSweep EXCEPT !.pc = "loop", !.thresh_list = thresh_list,
                                !.actuals = pair.actuals, !.predicted = pair.predicted,
                                !.undefined_auc = undefined, !.i = 1]

\* lines 1122-1129: the iteration for threshold thresh_list[i]
ThrIterate ==
    /\ thr.pc = "loop"
    /\ thr.i <= Len(thr.thresh_list)
    /\ thr' = IF OneClass(thr.actuals) /\ thr.undefined_auc = "raise"
              THEN [thr EXCEPT !.pc = "raised", !.err = "ValueError"]
              ELSE [thr EXCEPT !.i = @ + 1,
                               !.result_df = Append(@, ThresholdRow(thr.thresh_list[thr.i],
                                                                    thr.actuals, thr.predicted))]
    /\ UNCHANGED <<opVars, dsVars, frsVars>>

\* lines 1131-1143: the rounding and the return
ThrReturn ==
    /\ thr.pc = "loop"
    /\ thr.i > Len(thr.thresh_list)
    /\ thr' = [thr EXCEPT !.pc = "returned",
                          !.result_df = [j \in 1..Len(@) |-> RoundRow(@[j])]]
    /\ UNCHANGED <<opVars, dsVars, frsVars>>

ThrNext == ThrIterate \/ ThrReturn

ThrSpec == ThrInit /\ [][ThrNext]_vars

(***************************************************************************)
(* Claims about the operators.                                             *)
(***************************************************************************)
\* the target column of the operator under test
TargetOf(o) ==
    CASE o.kind = "Mapping" -> o.mapping_column
      [] o.kind = "Target" -> o.col
      [] o.kind \in {"OHE", "Sigma3", "Tukey", "Robust"} -> o.target_column
      [] OTHER -> ""

\* C1: a call to transform, whether it returns or raises, leaves the
\* caller's table as it was: same columns, order, rows and cell values.
C1_TransformLeavesTableUnchanged ==
    [][call' = "transform" => X' = X]_vars

C1_Witness ==
    /\ call = "transform" /\ ret.ok
    /\ X.nrows > 0
    /\ ret.out # X

C3_TransformKeepsFittedParameters ==
    [][(call' = "transform" /\ op.kind \in Stateful)
          => (op' = op /\ (call = "transform" => ret' = ret))]_vars

C3_Witness ==
    /\ op.kind \in Stateful /\ fit_succeeded
    /\ call = "transform" /\ ret.ok
    /\ ret.out # X

\* C8: Mapping transform replaces every cell of the target column whose
\* value is a key by the key's image, applied once; leaves every other cell
\* of the column, every other column and the row count as they were.
C8_MappingReplacesKeysOnce ==
    (op.kind = "Mapping" /\ call = "transform" /\ ret.ok) =>
        LET c == op.mapping_column
            M == op.mapping_dict
        IN /\ ret.out.cols = X.cols
           /\ ret.out.nrows = X.nrows
           /\ \A i \in 1..X.nrows :
                 ret.out.cell[c][i] =
                     IF X.cell[c][i] \in DOMAIN M THEN M[X.cell[c][i]] ELSE X.cell[c][i]
           /\ \A x \in Range(X.cols) \ {c} :
                 ret.out.cell[x] = X.cell[x] /\ ret.out.dtype[x] = X.dtype[x]

\* a key whose image is another key with a different image, and a value
\* that is no key, in one column
C8_Witness ==
    /\ op.kind = "Mapping" /\ call = "transform" /\ ret.ok
    /\ LET c == op.mapping_column
           M == op.mapping_dict
       IN /\ \E i \in 1..X.nrows :
                /\ X.cell[c][i] \in DOMAIN M
                /\ M[X.cell[c][i]] \in DOMAIN M
                /\ M[M[X.cell[c][i]]] # M[X.cell[c][i]]
          /\ \E x \in Range(X.cols) : x # c /\ X.nrows > 0

Injective(M) == \A j, k \in DOMAIN M : M[j] = M[k] => j = k

ImagesOf(M) == {M[k] : k \in DOMAIN M}

Inverse(M) == [w \in ImagesOf(M) |-> CHOOSE k \in DOMAIN M : M[k] = w]

\* the table the inverse mapping's transform returns on the last result
RoundTrip ==
    CustomMappingTransformer_transform(
        CustomMappingTransformer(op.mapping_column, Inverse(op.mapping_dict)), ret.out)

\* C9 as claimed: for an injective mapping, transform and then the inverse
\* mapping's transform give back the table.
C9_RoundTripOfInjectiveMapping ==
    (op.kind = "Mapping" /\ call = "transform" /\ ret.ok /\ Injective(op.mapping_dict))
        => (RoundTrip.ok /\ RoundTrip.out = X)

\* C9 as amended: the round trip gives back the table when, besides, no value
\* of the column that is not a key of the mapping is an image of the mapping.
C9_RoundTripWhenImagesAreFresh ==
    (/\ op.kind = "Mapping" /\ call = "transform" /\ ret.ok
     /\ Injective(op.mapping_dict)
     /\ \A i \in 1..X.nrows :
           X.cell[op.mapping_column][i] \notin DOMAIN op.mapping_dict
               => X.cell[op.mapping_column][i] \notin ImagesOf(op.mapping_dict))
        => (RoundTrip.ok /\ RoundTrip.out = X)

\* a mapping that changes a cell, passes another through, and is undone
C9_Witness ==
    /\ op.kind = "Mapping" /\ call = "transform" /\ ret.ok
    /\ Injective(op.mapping_dict)
    /\ \A i \in 1..X.nrows :
          X.cell[op.mapping_column][i] \notin DOMAIN op.mapping_dict
              => X.cell[op.mapping_column][i] \notin ImagesOf(op.mapping_dict)
    /\ \E i \in 1..X.nrows : X.cell[op.mapping_column][i] \notin DOMAIN op.mapping_dict
    /\ ret.out # X
    /\ RoundTrip.out = X

\* C10: Mapping transform raises exactly when its input is no table or
\* lacks the target column; keys that are no value of the column and values
\* that are no key never make it raise, and such values pass through.
C10_MappingFailsOnlyOnMissingColumn ==
    (op.kind = "Mapping" /\ call = "transform") =>
        /\ ~ret.ok <=> (~X.df \/ ~HasCol(X, op.mapping_column))
        /\ ret.ok =>
              \A i \in 1..X.nrows :
                  X.cell[op.mapping_column][i] \notin DOMAIN op.mapping_dict
                      => ret.out.cell[op.mapping_column][i] = X.cell[op.mapping_column][i]

\* a key that is no value and a value that is no key, and the call returned
C10_Witness ==
    /\ op.kind = "Mapping" /\ call = "transform" /\ ret.ok
    /\ DOMAIN op.mapping_dict \ Range(X.cell[op.mapping_column]) # {}
    /\ Range(X.cell[op.mapping_column]) \ DOMAIN op.mapping_dict # {}

\* the names get_dummies can give the indicator columns of column c
IndicatorNames(c) == {DummyName(c, CatOrder[i]) : i \in 1..Len(CatOrder)}

\* the indicator columns of a one-hot result
Indicators(out, c) == {n \in Range(out.cols) : n \in IndicatorNames(c)}

\* the distinct values of a column that are not missing
DistinctValues(values) == {v \in Range(values) : ~IsNaN(v)}

\* the target column is gone, there is one indicator per distinct value,
\* and every indicator cell is 0 or 1
OneIndicatorPerValue(T, c, out) ==
    /\ ~HasCol(out, c)
    /\ out.nrows = T.nrows
    /\ Cardinality(Indicators(out, c)) = Cardinality(DistinctValues(T.cell[c]))
    /\ \A n \in Indicators(out, c), i \in 1..T.nrows : out.cell[n][i] \in {Whole(0), Whole(1)}

\* row i has exactly one indicator equal to 1, the one named after its value
RowHasItsIndicator(T, c, out, i) ==
    /\ IsStr(T.cell[c][i])
    /\ {n \in Indicators(out, c) : out.cell[n][i] = Whole(1)} = {DummyName(c, T.cell[c][i].s)}

\* C11 as stated: one-hot transform removes the target column, gives one
\* 0/1 indicator column per distinct value, exactly one indicator equal to 1
\* in every row (the one of the row's value), and keeps the values of all
\* non-target columns.
C11_OneHotEveryRowHasOneIndicator ==
    (op.kind = "OHE" /\ call = "transform" /\ ret.ok) =>
        LET c == op.target_column
        IN /\ OneIndicatorPerValue(X, c, ret.out)
           /\ \A i \in 1..X.nrows : RowHasItsIndicator(X, c, ret.out, i)
           /\ \A x \in Range(X.cols) \ {c} : HasCol(ret.out, x) /\ ret.out.cell[x] = X.cell[x]

\* C11, amended: on a table with no column named like an indicator of c,
\* one-hot transform removes the target column, gives one 0/1 indicator
\* column per distinct non-missing value, exactly one indicator equal to 1
\* in every row whose value is not missing (the one of the row's value) and
\* none in a row whose value is missing, and keeps the values of all
\* non-target columns.
C11_OneHotRowsWithAValueHaveOneIndicator ==
    (op.kind = "OHE" /\ call = "transform" /\ ret.ok
        /\ Range(X.cols) \cap IndicatorNames(op.target_column) = {}) =>
        LET c == op.target_column
        IN /\ OneIndicatorPerValue(X, c, ret.out)
           /\ \A i \in 1..X.nrows :
                 IF IsNaN(X.cell[c][i])
                 THEN \A n \in Indicators(ret.out, c) : ret.out.cell[n][i] = Whole(0)
                 ELSE RowHasItsIndicator(X, c, ret.out, i)
           /\ \A x \in Range(X.cols) \ {c} : HasCol(ret.out, x) /\ ret.out.cell[x] = X.cell[x]

\* a value and a missing value in the target column, next to another
\* column
C11_Witness ==
    /\ op.kind = "OHE" /\ call = "transform" /\ ret.ok
    /\ X.cols = <<"cat", "num">>
    /\ \E i \in 1..X.nrows : IsStr(X.cell["cat"][i])
    /\ \E i \in 1..X.nrows : IsNaN(X.cell["cat"][i])
    /\ Indicators(ret.out, "cat") # {}

\* the columns of a table that a list does not name, in the table's order
NotListed(T, column_list) == SelectSeq(T.cols, LAMBDA x : x \notin Range(column_list))

\* C12: Column Selector with 'keep' and every listed column present gives
\* exactly the listed columns in the order listed; with 'drop' it gives the
\* input columns not listed, in input order; row count and the values of
\* the retained columns are unchanged; keep([c]) followed by drop([c])
\* gives a table with no columns and the original row count.
C12_SelectorResultColumns ==
    (op.kind = "DropColumns" /\ call = "transform" /\ ret.ok) =>
        /\ (op.action = "keep" /\ Range(op.column_list) \subseteq Range(X.cols)) =>
              ret.out.cols = op.column_list
        /\ op.action = "drop" => ret.out.cols = NotListed(X, op.column_list)
        /\ ret.out.nrows = X.nrows
        /\ \A x \in Range(ret.out.cols) :
              ret.out.cell[x] = X.cell[x] /\ ret.out.dtype[x] = X.dtype[x]
        /\ (op.action = "keep" /\ Len(op.column_list) = 1) =>
              LET again == CustomDropColumnsTransformer_transform(
                               CustomDropColumnsTransformer(op.column_list, "drop"), ret.out)
              IN again.ok /\ again.out.cols = <<>> /\ again.out.nrows = X.nrows

\* keep with the columns listed in another order than the table has them
C12_Witness ==
    /\ op.kind = "DropColumns" /\ call = "transform" /\ ret.ok
    /\ op.action = "keep"
    /\ X.cols = <<"cat", "num">> /\ X.nrows > 0
    /\ ret.out.cols = <<"num", "cat">>

\* C13: on a table, 'keep' fails and returns no table whenever a listed
\* column is absent; 'drop' never fails for an absent listed column and
\* returns the input without the listed columns that are present.
C13_SelectorErrorAsymmetry ==
    (op.kind = "DropColumns" /\ call = "transform" /\ X.df) =>
        /\ (op.action = "keep" /\ Range(op.column_list) \ Range(X.cols) # {}) =>
              ~ret.ok /\ ret.out = NotATable
        /\ op.action = "drop" =>
              /\ ret.ok
              /\ ret.out = SelectCols(X, NotListed(X, op.column_list))

\* keep of two columns on a table that has one of them
C13_Witness ==
    /\ op.kind = "DropColumns" /\ call = "transform" /\ ~ret.ok
    /\ op.action = "keep"
    /\ Range(op.column_list) \cap Range(X.cols) # {}
    /\ Range(op.column_list) \ Range(X.cols) # {}
    /\ X.nrows > 0

\* the bounds a clipping operator clips with
LowerBound(o) ==
    IF o.kind = "Sigma3" THEN o.low_wall
    ELSE IF o.fence = "inner" THEN o.inner_low ELSE o.outer_low

UpperBound(o) ==
    IF o.kind = "Sigma3" THEN o.high_wall
    ELSE IF o.fence = "inner" THEN o.inner_high ELSE o.outer_high

\* a successful transform of a clipping operator with a fence the claim names
Clipped ==
    /\ op.kind \in {"Sigma3", "Tukey"}
    /\ op.kind = "Tukey" => op.fence \in {"inner", "outer"}
    /\ call = "transform" /\ ret.ok

\* v is in the closed interval [lower, upper]
Inside(v, lower, upper) == RLeq(lower, v) /\ RLeq(v, upper)

\* what the claim says of one value v and its output w
ClippedTo(v, w, lower, upper) ==
    /\ Inside(w, lower, upper)
    /\ RLess(v, lower) => w = lower
    /\ RLess(upper, v) => w = upper
    /\ Inside(v, lower, upper) => w = v

\* transform applied to its own output changes nothing
ClipAgainChangesNothing ==
    LET again == Transform(op, ret.out) IN again.ok /\ again.out = ret.out

\* C14 as stated: after a fitted Sigma-clip or Tukey transform every value
\* of the target column is inside the operator's bounds, a value below
\* became the lower bound, a value above the upper bound, a value inside is
\* unchanged, and a second transform changes nothing.
C14_EveryValueInsideBounds ==
    Clipped =>
        LET c == op.target_column
        IN /\ \A i \in 1..X.nrows :
                 ClippedTo(X.cell[c][i], ret.out.cell[c][i], LowerBound(op), UpperBound(op))
           /\ ClipAgainChangesNothing

\* C14, amended: when the fitted bounds are numbers, every value of the
\* target column that is not missing is clipped into the bounds as stated,
\* a missing value stays missing, and a second transform changes nothing.
C14_PresentValuesInsideNumericBounds ==
    (Clipped /\ IsNum(LowerBound(op)) /\ IsNum(UpperBound(op))) =>
        LET c == op.target_column
        IN /\ \A i \in 1..X.nrows :
                 IF IsNum(X.cell[c][i])
                 THEN ClippedTo(X.cell[c][i], ret.out.cell[c][i], LowerBound(op), UpperBound(op))
                 ELSE ret.out.cell[c][i] = X.cell[c][i]
           /\ ClipAgainChangesNothing

\* a value above the upper bound, clipped to it
C14_Witness ==
    /\ Clipped
    /\ IsNum(UpperBound(op))
    /\ \E i \in 1..X.nrows :
          /\ RLess(UpperBound(op), X.cell[op.target_column][i])
          /\ ret.out.cell[op.target_column][i] = UpperBound(op)

\* C15: a Tukey operator whose fence is neither 'inner' nor 'outer' never
\* gives a transformed table: fit fails on it and leaves an unfitted
\* operator unfitted, and transform fails on it, also when the fence was
\* changed after a successful fit.
C15_InvalidFenceNeverTransforms ==
    (op.kind = "Tukey" /\ op.fence \notin {"inner", "outer"} /\ call \in {"fit", "transform"}) =>
        /\ ~ret.ok
        /\ ret.out = NotATable
        /\ (call = "fit" /\ ~fit_succeeded) =>
              /\ IsNone(op.inner_low) /\ IsNone(op.inner_high)
              /\ IsNone(op.outer_low) /\ IsNone(op.outer_high)

\* C16: Robust transform with fitted median m and IQR: when IQR is not 0
\* every value v of the target column becomes (v - m)/IQR, so a value equal
\* to m becomes 0; when IQR is 0 the returned table equals the input table.
C16_RobustScalesByMedianAndIQR ==
    (op.kind = "Robust" /\ call = "transform" /\ ret.ok) =>
        LET c == op.target_column
        IN IF op.iqr # Whole(0)
           THEN \A i \in 1..X.nrows :
                   /\ ret.out.cell[c][i] = RDiv(RSub(X.cell[c][i], op.med), op.iqr)
                   /\ (IsNum(op.iqr) /\ X.cell[c][i] = op.med) => ret.out.cell[c][i] = Whole(0)
           ELSE ret.out = X

\* a value equal to the median and one that is not, scaled by an IQR that
\* is not 0
C16_Witness ==
    /\ op.kind = "Robust" /\ call = "transform" /\ ret.ok
    /\ IsNum(op.iqr) /\ op.iqr # Whole(0)
    /\ \E i, j \in 1..X.nrows :
          /\ X.cell[op.target_column][i] = op.med
          /\ ret.out.cell[op.target_column][i] = Whole(0)
          /\ IsNum(ret.out.cell[op.target_column][j])
          /\ ret.out.cell[op.target_column][j] # Whole(0)

\* C17: Robust fails whenever the target column is absent from the table:
\* fit fails and sets no median/IQR, and transform of a fitted operator
\* fails and returns no table, whatever the fitted IQR is.
C17_RobustFailsOnAbsentColumn ==
    (op.kind = "Robust" /\ X.df /\ ~HasCol(X, op.target_column)
        /\ call \in {"fit", "transform"}) =>
        /\ ~ret.ok
        /\ ret.out = NotATable
        /\ (call = "fit" /\ ~fit_succeeded) => IsNone(op.iqr) /\ IsNone(op.med)

\* the sum of the labels of a set of rows
RECURSIVE LabelSum(_, _)
LabelSum(labels, rows) ==
    IF rows = {} THEN Whole(0)
    ELSE LET i == CHOOSE i \in rows : TRUE IN RAdd(labels[i], LabelSum(labels, rows \ {i}))

\* (n_k * mean_k + s * g) / (n_k + s) for category k of a column with labels
Encoding(values, labels, s_, k) ==
    LET rows == {i \in 1..Len(values) : values[i] = k}
        n_k == Cardinality(rows)
        mean_k == RDiv(LabelSum(labels, rows), Whole(n_k))
        g == RDiv(LabelSum(labels, 1..Len(labels)), Whole(Len(labels)))
    IN RDiv(RAdd(RMul(Whole(n_k), mean_k), RMul(s_, g)), RAdd(Whole(n_k), s_))

\* the example: categories [a, a, b], labels [1, 1, 0], s = 10
ExampleTable ==
    [df |-> TRUE, cols |-> <<"cat">>, nrows |-> 3,
     cell |-> [c \in {"cat"} |-> <<Str("a"), Str("a"), Str("b")>>],
     dtype |-> [c \in {"cat"} |-> "obj"]]

ExampleFit ==
    CustomTargetTransformer_fit(CustomTargetTransformer("cat", Whole(10)), ExampleTable,
                                Labels(<<Whole(1), Whole(1), Whole(0)>>))

\* C18: a successful Target fit on a table and as many labels stores for
\* every distinct category k of the target column (n_k * mean_k + s * g) /
\* (n_k + s), and transform replaces every occurrence of k by that value;
\* [a,a,b] with labels [1,1,0] and s = 10 gives a -> 13/18, b -> 20/33.
C18_TargetStoresSmoothedMeans ==
    /\ (op.kind = "Target" /\ call = "fit" /\ ret.ok) =>
          LET values == X.cell[op.col]
              again == Transform(op, X)
          IN /\ DOMAIN op.encoding_dict_.items = DistinctValues(values)
             /\ \A k \in DistinctValues(values) :
                   op.encoding_dict_.items[k] = Encoding(values, y.vals, op.smoothing, k)
             /\ DistinctValues(values) # {} =>
                   /\ again.ok
                   /\ \A i \in 1..X.nrows :
                         ~IsNaN(values[i]) =>
                             again.out.cell[op.col][i] =
                                 Encoding(values, y.vals, op.smoothing, values[i])
    /\ (op.kind = "Target" /\ call = "transform" /\ ret.ok) =>
          \A i \in 1..X.nrows :
             X.cell[op.col][i] \in DOMAIN op.encoding_dict_.items =>
                 ret.out.cell[op.col][i] = op.encoding_dict_.items[X.cell[op.col][i]]
    /\ ExampleFit.ok
    /\ ExampleFit.self.encoding_dict_.items =
          (Str("a") :> Num(13, 18)) @@ (Str("b") :> Num(20, 33))

\* a fit on two categories with different labels
C18_Witness ==
    /\ op.kind = "Target" /\ call = "fit" /\ ret.ok
    /\ Cardinality(DistinctValues(X.cell[op.col])) = 2
    /\ \E k, l \in DOMAIN op.encoding_dict_.items :
          op.encoding_dict_.items[k] # op.encoding_dict_.items[l]

\* C19: transform of a fitted Target operator never fails for an unseen
\* category: a cell whose category the fit did not see becomes NaN, a cell
\* with a seen category gets its fitted value, other columns are unchanged.
C19_UnseenCategoryBecomesNaN ==
    (op.kind = "Target" /\ fit_succeeded /\ call = "transform"
        /\ X.df /\ HasCol(X, op.col)) =>
        /\ ret.ok
        /\ \A i \in 1..X.nrows :
              ret.out.cell[op.col][i] =
                  IF X.cell[op.col][i] \in DOMAIN op.encoding_dict_.items
                  THEN op.encoding_dict_.items[X.cell[op.col][i]]
                  ELSE NaN
        /\ \A x \in Range(X.cols) \ {op.col} : ret.out.cell[x] = X.cell[x]

\* the arguments Target fit rejects
FitRejects(o, T, labels) ==
    labels.none \/ Len(labels.vals) # T.nrows \/ ~HasCol(T, o.col)

\* C20: Target fit fails when the labels are None, when their number is not
\* the row count, or when the target column is absent, and then leaves the
\* global mean and the encoding dictionary as they were.
C20_TargetFitFailureKeepsParameters ==
    [][(op.kind = "Target" /\ call' = "fit" /\ FitRejects(op, X, y')) =>
           (~ret'.ok /\ op' = op)]_vars

\* a fitted operator, then a fit with one label too many
C20_Witness ==
    /\ op.kind = "Target" /\ call = "fit" /\ ~ret.ok
    /\ fit_succeeded
    /\ Truthy(op.encoding_dict_)
    /\ HasCol(X, op.col) /\ ~y.none

\* the fitted check at the head of the operator's transform fails
FailsFittedCheck(o) ==
    CASE o.kind = "Sigma3" -> IsNone(o.high_wall) \/ IsNone(o.low_wall)
      [] o.kind = "Tukey" -> IsNone(o.inner_low) \/ IsNone(o.inner_high)
      [] o.kind = "Robust" -> IsNone(o.iqr) \/ IsNone(o.med)
      [] o.kind = "KNN" -> ~o.fitted
      [] o.kind = "Target" -> ~Truthy(o.encoding_dict_)
      [] OTHER -> FALSE

\* the last call was a transform, on a table that has the target column
TransformedWithTarget ==
    call = "transform" /\ X.df /\ (op.kind = "KNN" \/ HasCol(X, TargetOf(op)))

\* C22: once a fit of a stateful operator has returned, a transform on a
\* table that has the target column is not rejected as not fitted, whatever
\* table the fit was given: empty, of one row, or with a target column of
\* missing values only.
C22_FittedAfterSuccessfulFit ==
    (op.kind \in Stateful /\ fit_succeeded /\ TransformedWithTarget) =>
        ~(~ret.ok /\ FailsFittedCheck(op))

\* the operator as its constructor gives it, with o's construction parameters
Fresh(o) ==
    CASE o.kind = "Sigma3" -> CustomSigma3Transformer(o.target_column)
      [] o.kind = "Tukey" -> CustomTukeyTransformer(o.target_column, o.fence)
      [] o.kind = "Robust" -> CustomRobustTransformer(o.target_column)
      [] o.kind = "KNN" -> CustomKNNTransformer(o.n_neighbors)
      [] o.kind = "Target" -> CustomTargetTransformer(o.col, o.smoothing)
      [] OTHER -> o

\* C23: a fit that returns on a fitted stateful operator leaves it exactly
\* as the same fit leaves a freshly constructed operator with the same
\* construction parameters: no parameter of the earlier fit survives, and
\* transform, which reads the operator and the table only, gives for every
\* table what the fresh operator gives.
C23_RefitReplacesFittedState ==
    [][(op.kind \in Stateful /\ fit_succeeded /\ call' = "fit" /\ ret'.ok) =>
           \E fresh \in {Fit(Fresh(op), X, y')} : fresh.ok /\ op' = fresh.self]_vars

\* a second fit has returned and gave the operator other parameters than
\* the earlier fit had left
C23_Witness ==
    /\ op.kind \in Stateful /\ call = "fit" /\ ret.ok
    /\ refitted
    /\ ~FailsFittedCheck(op)

\* a fit of a single stateful operator that raises leaves the operator as it
\* was: every check of a fit comes before its first assignment
FailedFitKeepsOperator ==
    [][(op.kind \in Stateful /\ call' = "fit" /\ ~ret'.ok) => op' = op]_vars

(***************************************************************************)
(* Claims about the pipeline and dataset_setup.                            *)
(***************************************************************************)
\* the step the pipeline fit reached: all steps, or the one that raised
Reached == Len(fit_log.inputs)

\* C4: fitting the pipeline fits the operators in list order: the first on
\* the training table, every later operator Oi on the output of the fitted
\* operator before it applied to that operator's own input; each fitted
\* operator is what its fit gives on that table and the train labels, and
\* the Robust scaler of Age holds the median and IQR of the Age column as
\* the Tukey step left it.
C4_PipelineFitsEachStepOnPrecedingOutput ==
    fit_log.count = 1 =>
        /\ Reached >= 1
        /\ fit_log.inputs[1] = ds.X_train
        /\ \A i \in 2..Reached :
              fit_log.inputs[i] = Transform(fit_log.after[i - 1], fit_log.inputs[i - 1]).out
        /\ \A i \in 1..Reached :
              /\ i < Reached => Fit(fit_log.before[i], fit_log.inputs[i], ds.y_train).ok
              /\ fit_log.after[i] = Fit(fit_log.before[i], fit_log.inputs[i], ds.y_train).self
        /\ \A i \in (Reached + 1)..Len(fit_log.before) : fit_log.after[i] = fit_log.before[i]
        /\ Reached > 6 =>
              /\ fit_log.after[6].med = Median(fit_log.inputs[6].cell["Age"])
              /\ fit_log.after[6].iqr = RSub(Quantile(fit_log.inputs[6].cell["Age"], 3, 4),
                                             Quantile(fit_log.inputs[6].cell["Age"], 1, 4))
              /\ fit_log.inputs[6].cell["Age"] =
                    Transform(fit_log.after[4], fit_log.inputs[4]).out.cell["Age"]

\* the whole pipeline was fitted, and the Tukey step had clipped an Age of
\* the training table before the Robust scaler of Age was fitted
C4_Witness ==
    /\ fit_log.count = 1
    /\ Reached = Len(titanic_transformer)
    /\ ds.pc = "transform"
    /\ fit_log.inputs[6].cell["Age"] # ds.X_train.cell["Age"]
    /\ fit_log.inputs[6].cell["Age"] = fit_log.inputs[5].cell["Age"]

\* C5: dataset_setup fits the pipeline once, on the train partition, before
\* it transforms the test partition; the transform of the test partition
\* leaves every operator as the fit left it, the fitted operators are those
\* a new pipeline gets from the train rows and train labels alone, and the
\* test output is the fitted pipeline's transform of the test partition.
C5_PipelineFittedOnceOnTrainOnly ==
    /\ ds.pc \in {"idle", "split", "fit"} => fit_log.count = 0 /\ ds.X_test_transformed = NotATable
    /\ ds.pc = "transform" => fit_log.count = 1 /\ ds.X_test_transformed = NotATable
    /\ fit_log.count <= 1
    /\ fit_log.count = 1 => the_transformer = fit_log.after
    /\ ds.pc \in {"transform", "returned"} =>
          the_transformer =
              Pipeline_fit_transform(titanic_transformer, ds.X_train, ds.y_train).steps
    /\ ds.pc = "returned" =>
          ds.X_test_transformed = Pipeline_transform(fit_log.after, ds.X_test).out

\* dataset_setup returned, with a pipeline an earlier call had fitted on
\* other rows, and with an Age in the test partition that no train row has
C5_Witness ==
    /\ ds.pc = "returned"
    /\ fit_log.before = EarlierPipeline
    /\ the_transformer # EarlierPipeline
    /\ \E r \in 1..ds.X_test.nrows :
          \A t \in 1..ds.X_train.nrows : ds.X_test.cell["Age"][r] # ds.X_train.cell["Age"][t]

\* the pipeline's fit raised, at the step Reached
FitFailed ==
    ds.pc = "raised" /\ fit_log.count = 1 /\ ds.X_train_transformed = NotATable

Kept == SelectSeq(evaluated, LAMBDA e : ~TooLow(e.train_f1))

\* C6: the first result is the seed whose ratio is closest to the mean
\* ratio of the seeds not skipped, the first such seed on a tie, also when
\* seeds were skipped.
C6_ReturnsSeedClosestToMean ==
    frs.pc = "returned" =>
        frs.rs_value = Kept[FirstSmallest(DistancesToMean(frs.Var))].seed

\* C7: skipping is never an error: the call returns whatever the number of
\* skipped seeds, and the ratio list holds one ratio test_f1/train_f1 for
\* each seed not skipped, in seed order.
C7_SkippingNeverRaises ==
    frs.pc \in {"returned", "raised"} =>
        /\ frs.pc = "returned"
        /\ frs.Var = [j \in 1..Len(Kept) |-> RDiv(Kept[j].test_f1, Kept[j].train_f1)]
        /\ \A j \in 1..(Len(Kept) - 1) : Kept[j].seed < Kept[j + 1].seed

(***************************************************************************)
(* Claims about threshold_results.                                         *)
(***************************************************************************)
\* the positions a threshold t counts as positive: those with p >= t
PositiveAt(t) == {k \in 1..Len(thr.predicted) : ~RLess(thr.predicted[k], t)}

ActualPositive == {k \in 1..Len(thr.actuals) : thr.actuals[k] = 1}

\* the scores of a threshold's row, from the positions counted as positive
ScoresAt(t) ==
    LET P == PositiveAt(t)
        A == ActualPositive
        tp == Cardinality(P \cap A)
        right == tp + Cardinality((1..Len(thr.actuals)) \ (P \cup A))
    IN [precision |-> Ratio(tp, Cardinality(P)),
        recall |-> Ratio(tp, Cardinality(A)),
        f1 |-> Ratio(2 * tp, Cardinality(P) + Cardinality(A)),
        accuracy |-> Num(right, Len(thr.actuals))]

\* C21: the table threshold_results returns has one row per threshold, in
\* list order; the scores of a row are those of the predictions counted as
\* positive exactly when p >= t, rounded; the auc is the same in every row
\* and is the rounded area under the curve of the unthresholded predictions
C21_OneRowPerThresholdSameAuc ==
    thr.pc = "returned" =>
        /\ Len(thr.result_df) = Len(thr.thresh_list)
        /\ \A j \in 1..Len(thr.result_df) :
              LET row == thr.result_df[j]
                  t == thr.thresh_list[j]
              IN /\ row.threshold = Round2(t)
                 /\ \A c \in {"precision", "recall", "f1", "accuracy"} :
                       row[c] = Round2(ScoresAt(t)[c])
                 /\ row.auc = Round2(roc_auc_score(thr.actuals, thr.predicted))
        /\ \A j, k \in 1..Len(thr.result_df) : thr.result_df[j].auc = thr.result_df[k].auc

\* a returned sweep over [0.3, 0.5, 0.7] on labels of both classes, with a
\* prediction equal to a threshold, whose rows differ in precision and in
\* recall and agree on a defined auc
C21_Witness ==
    /\ thr.pc = "returned"
    /\ thr.thresh_list = <<Num(3, 10), Num(1, 2), Num(7, 10)>>
    /\ ~OneClass(thr.actuals)
    /\ \E k \in 1..Len(thr.predicted) : thr.predicted[k] = Num(1, 2)
    /\ thr.result_df[1].precision # thr.result_df[2].precision
    /\ thr.result_df[2].recall # thr.result_df[3].recall
    /\ IsNum(thr.result_df[1].auc)
    /\ thr.result_df[1].auc = thr.result_df[3].auc

=============================================================================
